---- MODULE Spec2Model ----
(***************************************************************************)
(* Model of the docs.rs MCP server (src/src/index.ts): the tool-dispatch   *)
(* handler and the tools getReadMe, getItem and searchInCrate.             *)
(*                                                                         *)
(* A JavaScript string is modelled as a sequence of one-character strings, *)
(* so that split, join, replaceAll, includes, startsWith, trim and         *)
(* toLowerCase are computed character by character as the runtime does.    *)
(* A cheerio selection is modelled as the sequence of the inner markups of *)
(* the matched elements (length = number of matches).                      *)
(***************************************************************************)
EXTENDS Integers, Sequences, FiniteSets, TLC

\* ------------------------------------------------------------------------
\* Bounds of the model
\* ------------------------------------------------------------------------
\* longest generated item_path, in characters
MaxPathLen == 5
\* most hyperlinks inside #main-content of an index page
MaxLinks == 2

\* ------------------------------------------------------------------------
\* String primitives of the runtime
\* ------------------------------------------------------------------------
\* String.prototype.startsWith
StartsWith(s, p) == Len(p) <= Len(s) /\ SubSeq(s, 1, Len(p)) = p

\* String.prototype.endsWith
EndsWith(s, p) == Len(p) <= Len(s) /\ SubSeq(s, Len(s) - Len(p) + 1, Len(s)) = p

\* String.prototype.includes
Includes(s, sub) == \E i \in 1..(Len(s) - Len(sub) + 1) : SubSeq(s, i, i + Len(sub) - 1) = sub

\* index of the first occurrence of sub in s, 0 when there is none
IndexOf(s, sub) ==
    IF Includes(s, sub)
    THEN CHOOSE i \in 1..(Len(s) - Len(sub) + 1) :
            /\ SubSeq(s, i, i + Len(sub) - 1) = sub
            /\ \A j \in 1..(i - 1) : SubSeq(s, j, j + Len(sub) - 1) # sub
    ELSE 0

\* String.prototype.split with a non-empty separator
RECURSIVE Split(_, _)
Split(s, sep) ==
    IF IndexOf(s, sep) = 0
    THEN <<s>>
    ELSE <<SubSeq(s, 1, IndexOf(s, sep) - 1)>>
            \o Split(SubSeq(s, IndexOf(s, sep) + Len(sep), Len(s)), sep)

\* Array.prototype.join
RECURSIVE Join(_, _)
Join(parts, sep) ==
    IF Len(parts) = 0 THEN <<>>
    ELSE IF Len(parts) = 1 THEN parts[1]
    ELSE parts[1] \o sep \o Join(Tail(parts), sep)

\* String.prototype.replaceAll with a non-empty string pattern
RECURSIVE ReplaceAll(_, _, _)
ReplaceAll(s, pat, rep) ==
    IF Len(s) = 0 THEN <<>>
    ELSE IF StartsWith(s, pat)
    THEN rep \o ReplaceAll(SubSeq(s, Len(pat) + 1, Len(s)), pat, rep)
    ELSE <<Head(s)>> \o ReplaceAll(Tail(s), pat, rep)

\* Array.prototype.pop on the split result: the last element
Pop(parts) == parts[Len(parts)]

\* Array.prototype.slice(0, -1)
SliceInit(parts) == SubSeq(parts, 1, Len(parts) - 1)

UpperCase == <<"A","B","C","D","E","F","G","H","I","J","K","L","M","N","O","P","Q","R","S","T","U","V","W","X","Y","Z">>
LowerCase == <<"a","b","c","d","e","f","g","h","i","j","k","l","m","n","o","p","q","r","s","t","u","v","w","x","y","z">>

\* String.prototype.toLowerCase on ASCII text
ToLowerCase(s) ==
    [i \in 1..Len(s) |->
        IF \E k \in 1..Len(UpperCase) : UpperCase[k] = s[i]
        THEN LowerCase[CHOOSE k \in 1..Len(UpperCase) : UpperCase[k] = s[i]]
        ELSE s[i]]

WhiteSpace == {" ", "\n", "\t"}

\* String.prototype.trim
RECURSIVE TrimStart(_)
TrimStart(s) == IF Len(s) > 0 /\ Head(s) \in WhiteSpace THEN TrimStart(Tail(s)) ELSE s
RECURSIVE TrimEnd(_)
TrimEnd(s) == IF Len(s) > 0 /\ s[Len(s)] \in WhiteSpace THEN TrimEnd(SubSeq(s, 1, Len(s) - 1)) ELSE s
Trim(s) == TrimEnd(TrimStart(s))

\* ------------------------------------------------------------------------
\* Libraries: cheerio selections and the turndown service
\* ------------------------------------------------------------------------
\* cheerio .first(): the selection reduced to its first element
First(sel) == IF Len(sel) = 0 THEN <<>> ELSE <<sel[1]>>

\* sel.html() || "": inner markup of the first matched element; html() is
\* null on an empty selection, and null || "" is ""
HtmlOrEmpty(sel) == IF Len(sel) = 0 THEN <<>> ELSE sel[1]

\* removes everything between "<" and ">"; inTag tells whether s starts inside a tag
RECURSIVE StripTags(_, _)
StripTags(s, inTag) ==
    IF Len(s) = 0 THEN <<>>
    ELSE IF inTag THEN StripTags(Tail(s), Head(s) # ">")
    ELSE IF Head(s) = "<" THEN StripTags(Tail(s), TRUE)
    ELSE <<Head(s)>> \o StripTags(Tail(s), FALSE)

\* turndownService.turndown on a fragment made of <p>, <div> and <span>
\* elements: the text content, trimmed; "" for "" and for markup without text
Turndown(html) == Trim(StripTags(html, FALSE))

\* decimal digits of a natural number (template literal interpolation)
RECURSIVE NumberToString(_)
NumberToString(n) ==
    IF n < 10 THEN <<<<"0","1","2","3","4","5","6","7","8","9">>[n + 1]>>
    ELSE NumberToString(n \div 10) \o <<<<"0","1","2","3","4","5","6","7","8","9">>[(n % 10) + 1]>>

\* `${error}` for an Error object made by new Error(message)
ErrorToString(message) == <<"E","r","r","o","r",":"," ">> \o message

\* ------------------------------------------------------------------------
\* Tool arguments
\* ------------------------------------------------------------------------
\* const { ..., version = "latest" } = args
VersionOf(args) == IF "version" \in DOMAIN args THEN args.version ELSE <<"l","a","t","e","s","t">>

\* !x || x == "" for an optional string argument
IsBlank(args, key) == key \notin DOMAIN args \/ args[key] = <<>>

\* ------------------------------------------------------------------------
\* getReadMe
\* ------------------------------------------------------------------------
ReadMeUrl(args) ==
    <<"h","t","t","p","s",":","/","/","d","o","c","s",".","r","s","/">> \o args.crate_name \o <<"/">> \o VersionOf(args) \o <<"/">>
        \o args.crate_name \o <<"/","i","n","d","e","x",".","h","t","m","l">>

\* the text payload built after the page arrived
ReadMeText(args, docUrl, page) ==
    LET mainContent == First(page.docblock)
        alternativeContent == First(page.altItemDecl)
    IN  IF Len(mainContent) = 0 /\ Len(alternativeContent) = 0
        THEN <<"#"," ">> \o args.crate_name \o <<" ","D","o","c","u","m","e","n","t","a","t","i","o","n","\n","\n","N","o"," ","d","o","c","u","m","e","n","t","a","t","i","o","n"," ","c","o","n","t","e","n","t"," ","f","o","u","n","d"," ","a","t"," ">> \o docUrl
        ELSE <<"#"," ">> \o args.crate_name \o <<" ","D","o","c","u","m","e","n","t","a","t","i","o","n","\n","\n">> \o Turndown(HtmlOrEmpty(mainContent))

\* getReadMe's failure message without the crate name
ReadMeFailureAnonymous(args, cause) == <<"F","a","i","l","e","d"," ","t","o"," ","g","e","t"," ","R","E","A","D","M","E",":"," ">> \o cause

\* message of the Error thrown by the catch block of getReadMe
ReadMeFailure(args, cause) == <<"F","a","i","l","e","d"," ","t","o"," ","g","e","t"," ","R","E","A","D","M","E"," ","f","o","r"," ">> \o args.crate_name \o <<":"," ">> \o cause

\* ------------------------------------------------------------------------
\* getItem
\* ------------------------------------------------------------------------
\* getItem's URL without the special case for modules
ItemUrlLeafOnly(args) ==
    LET pathParts == Split(args.item_path, <<":",":">>)
    IN  <<"h","t","t","p","s",":","/","/","d","o","c","s",".","r","s","/">> \o args.crate_name \o <<"/">> \o VersionOf(args) \o <<"/">>
            \o Join(SliceInit(pathParts), <<"/">>) \o <<"/">> \o args.item_type \o <<".">> \o Pop(pathParts) \o <<".","h","t","m","l">>

ItemUrl(args) ==
    LET item_name == Pop(Split(args.item_path, <<":",":">>))
    IN  IF args.item_type = <<"m","o","d","u","l","e">>
        THEN <<"h","t","t","p","s",":","/","/","d","o","c","s",".","r","s","/">> \o args.crate_name \o <<"/">> \o VersionOf(args) \o <<"/">>
                \o ReplaceAll(args.item_path, <<":",":">>, <<"/">>) \o <<"/","i","n","d","e","x",".","h","t","m","l">>
        ELSE LET pathParts == Split(args.item_path, <<":",":">>)
                 modulePath == Join(SliceInit(pathParts), <<"/">>)
             IN  <<"h","t","t","p","s",":","/","/","d","o","c","s",".","r","s","/">> \o args.crate_name \o <<"/">> \o VersionOf(args) \o <<"/">>
                    \o modulePath \o <<"/">> \o args.item_type \o <<".">> \o item_name \o <<".","h","t","m","l">>

\* the selector chain: contentHtml after the if/else on #main-content
ExtractItem(page) ==
    LET mainContentSection == page.mainContent
        itemDecl == First(page.itemDecl)
        mainContent == First(page.docblock)
        alternativeContent == First(page.altItemDecl)
    IN  IF Len(mainContentSection) > 0
        THEN HtmlOrEmpty(mainContentSection)
        ELSE (IF Len(itemDecl) > 0 THEN HtmlOrEmpty(itemDecl) ELSE <<>>)
             \o (IF Len(mainContent) = 0
                 THEN (IF Len(alternativeContent) > 0 THEN HtmlOrEmpty(alternativeContent) ELSE <<>>)
                 ELSE HtmlOrEmpty(mainContent))

\* getItem's payload with the emptiness test made on the rendered markdown
ItemTextTestsRendered(args, docUrl, fragment) ==
    IF Turndown(fragment) = <<>>
    THEN <<"#"," ">> \o args.item_path \o <<" ","(">> \o args.item_type \o <<")","\n","\n","N","o"," ","d","o","c","u","m","e","n","t","a","t","i","o","n"," ","c","o","n","t","e","n","t"," ","f","o","u","n","d"," ","a","t"," ">> \o docUrl
    ELSE <<"#"," ">> \o args.item_path \o <<" ","(">> \o args.item_type \o <<")","\n","\n","*","*","D","o","c","u","m","e","n","t","a","t","i","o","n"," ","U","R","L",":","*","*"," ">> \o docUrl
            \o <<"\n","\n">> \o Turndown(fragment)

\* the text payload built from the fragment
ItemText(args, docUrl, fragment) ==
    IF fragment = <<>>
    THEN <<"#"," ">> \o args.item_path \o <<" ","(">> \o args.item_type \o <<")","\n","\n","N","o"," ","d","o","c","u","m","e","n","t","a","t","i","o","n"," ","c","o","n","t","e","n","t"," ","f","o","u","n","d"," ","a","t"," ">> \o docUrl
    ELSE <<"#"," ">> \o args.item_path \o <<" ","(">> \o args.item_type \o <<")","\n","\n","*","*","D","o","c","u","m","e","n","t","a","t","i","o","n"," ","U","R","L",":","*","*"," ">> \o docUrl
            \o <<"\n","\n">> \o Turndown(fragment)

\* message of the Error thrown by the catch block of getItem
ItemFailure(args, cause) == <<"F","a","i","l","e","d"," ","t","o"," ","g","e","t"," ","i","t","e","m"," ","d","o","c","u","m","e","n","t","a","t","i","o","n"," ","f","o","r"," ">> \o args.item_path \o <<":"," ">> \o cause

\* ------------------------------------------------------------------------
\* searchInCrate
\* ------------------------------------------------------------------------
SearchUrl(args) ==
    <<"h","t","t","p","s",":","/","/","d","o","c","s",".","r","s","/">> \o args.crate_name \o <<"/">> \o VersionOf(args) \o <<"/">>
        \o args.crate_name \o <<"/","a","l","l",".","h","t","m","l">>

\* the classification chain with fn. tested first
ClassifyFnFirst(itemLink) ==
    IF Includes(itemLink, <<"f","n",".">>) THEN <<"f","u","n","c","t","i","o","n">>
    ELSE IF Includes(itemLink, <<"s","t","r","u","c","t",".">>) THEN <<"s","t","r","u","c","t">>
    ELSE IF Includes(itemLink, <<"t","r","a","i","t",".">>) THEN <<"t","r","a","i","t">>
    ELSE IF Includes(itemLink, <<"e","n","u","m",".">>) THEN <<"e","n","u","m">>
    ELSE IF Includes(itemLink, <<"t","y","p","e",".">>) THEN <<"t","y","p","e">>
    ELSE IF Includes(itemLink, <<"c","o","n","s","t",".">>) THEN <<"c","o","n","s","t","a","n","t">>
    ELSE IF Includes(itemLink, <<"s","t","a","t","i","c",".">>) THEN <<"s","t","a","t","i","c">>
    ELSE IF Includes(itemLink, <<"m","a","c","r","o",".">>) THEN <<"m","a","c","r","o">>
    ELSE <<"u","n","k","n","o","w","n">>

\* the if / else-if chain on itemLink.includes(...)
Classify(itemLink) ==
    IF Includes(itemLink, <<"s","t","r","u","c","t",".">>) THEN <<"s","t","r","u","c","t">>
    ELSE IF Includes(itemLink, <<"t","r","a","i","t",".">>) THEN <<"t","r","a","i","t">>
    ELSE IF Includes(itemLink, <<"f","n",".">>) THEN <<"f","u","n","c","t","i","o","n">>
    ELSE IF Includes(itemLink, <<"e","n","u","m",".">>) THEN <<"e","n","u","m">>
    ELSE IF Includes(itemLink, <<"t","y","p","e",".">>) THEN <<"t","y","p","e">>
    ELSE IF Includes(itemLink, <<"c","o","n","s","t",".">>) THEN <<"c","o","n","s","t","a","n","t">>
    ELSE IF Includes(itemLink, <<"s","t","a","t","i","c",".">>) THEN <<"s","t","a","t","i","c">>
    ELSE IF Includes(itemLink, <<"m","a","c","r","o",".">>) THEN <<"m","a","c","r","o">>
    ELSE <<"u","n","k","n","o","w","n">>

\* the name filter without the guard for an absent query
MatchesQueryRequired(args, itemName) ==
    "query" \in DOMAIN args /\ Includes(ToLowerCase(itemName), ToLowerCase(args.query))

MatchesQuery(args, itemName) ==
    IsBlank(args, "query") \/ Includes(ToLowerCase(itemName), ToLowerCase(args.query))

MatchesType(args, type, itemName) ==
    \/ IsBlank(args, "item_type")
    \/ type = args.item_type
    \/ Includes(ToLowerCase(itemName), ToLowerCase(args.item_type))

\* the link field of a pushed item
ResolveLink(args, itemLink) ==
    IF StartsWith(itemLink, <<"h","t","t","p">>)
    THEN itemLink
    ELSE <<"h","t","t","p","s",":","/","/","d","o","c","s",".","r","s","/">> \o args.crate_name \o <<"/">> \o VersionOf(args) \o <<"/">>
            \o args.crate_name \o <<"/">> \o itemLink

\* $("#main-content a").each(...): the items pushed, in document order
RECURSIVE CollectItems(_, _)
CollectItems(args, links) ==
    IF Len(links) = 0 THEN <<>>
    ELSE LET itemName == Trim(Head(links).text)
             itemLink == Head(links).href
             type == Classify(itemLink)
         IN  (IF itemName = <<>> \/ itemLink = <<>>
              THEN <<>>
              ELSE IF MatchesQuery(args, itemName) /\ MatchesType(args, type, itemName) /\ type # <<"u","n","k","n","o","w","n">>
              THEN <<[name |-> itemName, type |-> type, link |-> ResolveLink(args, itemLink)]>>
              ELSE <<>>)
             \o CollectItems(args, Tail(links))

\* self.findIndex(i => i.name === item.name && i.type === item.type), 1-based
FindIndex(self, item) ==
    CHOOSE k \in 1..Len(self) :
        /\ self[k].name = item.name /\ self[k].type = item.type
        /\ \A j \in 1..(k - 1) : ~(self[j].name = item.name /\ self[j].type = item.type)

\* the deduplication keeping the last occurrence of a (name, type) pair
UniqueItemsLastWins(items) ==
    LET IsLast(index) ==
            \A j \in (index + 1)..Len(items) :
                ~(items[j].name = items[index].name /\ items[j].type = items[index].type)
        F[k \in 0..Len(items)] ==
            IF k = 0 THEN <<>>
            ELSE IF IsLast(k) THEN Append(F[k - 1], items[k]) ELSE F[k - 1]
    IN  F[Len(items)]

\* items.filter((item, index, self) => index === self.findIndex(...))
UniqueItems(items) ==
    LET F[k \in 0..Len(items)] ==
            IF k = 0 THEN <<>>
            ELSE IF k = FindIndex(items, items[k]) THEN Append(F[k - 1], items[k]) ELSE F[k - 1]
    IN  F[Len(items)]

SearchText(args, unique) ==
    LET searchTerm == IF IsBlank(args, "query") THEN <<"a","l","l"," ","i","t","e","m","s">> ELSE args.query
        Section(item) ==
            <<"#","#"," ">> \o item.name \o <<" ","(">> \o item.type \o <<")","\n","\n">>
                \o <<"*","*","D","e","s","c","r","i","p","t","i","o","n",":","*","*"," ">> \o item.type \o <<"\n","\n">>
                \o <<"*","*","L","i","n","k",":","*","*"," ","[","V","i","e","w"," ","D","o","c","u","m","e","n","t","a","t","i","o","n","]","(">> \o item.link \o <<")","\n","\n">>
                \o <<"-","-","-","\n">>
    IN  <<"#"," ","S","e","a","r","c","h"," ","R","e","s","u","l","t","s"," ","f","o","r"," ","\"">> \o searchTerm \o <<"\""," ","i","n"," ">> \o args.crate_name \o <<"\n","\n">>
            \o <<"F","o","u","n","d"," ">> \o NumberToString(Len(unique)) \o <<" ","i","t","e","m","s","\n","\n">>
            \o (IF Len(unique) = 0
                THEN <<"N","o"," ","m","a","t","c","h","i","n","g"," ","i","t","e","m","s"," ","f","o","u","n","d",".">>
                ELSE Join([k \in 1..Len(unique) |-> Section(unique[k])], <<"\n">>))

\* message of the Error thrown by the catch block of searchInCrate
SearchFailure(args, cause) == <<"F","a","i","l","e","d"," ","t","o"," ","s","e","a","r","c","h"," ","i","t","e","m","s"," ","i","n"," ">> \o args.crate_name \o <<":"," ">> \o cause

\* ------------------------------------------------------------------------
\* searchCrates
\* ------------------------------------------------------------------------
\* const { query, per_page = 10, sort = "relevance" } = args
PerPageOf(args) == IF "per_page" \in DOMAIN args THEN args.per_page ELSE 10
SortOf(args) == IF "sort" \in DOMAIN args THEN args.sort ELSE <<"r","e","l","e","v","a","n","c","e">>

\* Math.min
Min(a, b) == IF a <= b THEN a ELSE b

\* the registry endpoint with the params of the GET serialised by axios
\* (query and sort tokens without characters that need escaping)
SearchCratesUrl(args) ==
    <<"h","t","t","p","s",":","/","/","c","r","a","t","e","s",".","i","o","/","a","p","i","/","v","1","/","c","r","a","t","e","s">> \o <<"?","q","=">> \o args.query
        \o <<"&","p","e","r","_","p","a","g","e","=">> \o NumberToString(Min(PerPageOf(args), 100))
        \o <<"&","s","o","r","t","=">> \o SortOf(args)

\* Number.prototype.toLocaleString in the en-US locale: groups of three digits
RECURSIVE ToLocaleString(_)
ToLocaleString(n) ==
    IF n < 1000 THEN NumberToString(n)
    ELSE ToLocaleString(n \div 1000) \o <<",">>
            \o NumberToString((n % 1000) \div 100)
            \o NumberToString((n % 100) \div 10)
            \o NumberToString(n % 10)

\* x || fallback for a string that may be null or "" (both modelled as "")
OrElse(x, fallback) == IF x = <<>> THEN fallback ELSE x

\* the text payload built from response.data.crates
SearchCratesText(args, data) ==
    LET crates == [k \in 1..Len(data) |->
                    [name |-> data[k].name,
                     description |-> OrElse(data[k].description, <<"N","o"," ","d","e","s","c","r","i","p","t","i","o","n"," ","a","v","a","i","l","a","b","l","e">>),
                     downloads |-> data[k].downloads,
                     version |-> data[k].newest_version,
                     documentation |-> data[k].documentation]]
        Section(crate) ==
            <<"#","#"," ">> \o crate.name \o <<" ","(">> \o crate.version \o <<")","\n","\n">>
                \o <<"*","*","D","e","s","c","r","i","p","t","i","o","n",":","*","*"," ">> \o crate.description \o <<"\n","\n">>
                \o <<"*","*","D","o","w","n","l","o","a","d","s",":","*","*"," ">> \o ToLocaleString(crate.downloads) \o <<"\n","\n">>
                \o <<"*","*","D","o","c","u","m","e","n","t","a","t","i","o","n",":","*","*"," ">> \o OrElse(crate.documentation, <<"N","/","A">>) \o <<"\n","\n","-","-","-","\n">>
    IN  <<"#"," ","C","r","a","t","e"," ","S","e","a","r","c","h"," ","R","e","s","u","l","t","s"," ","f","o","r"," ","\"">> \o args.query \o <<"\"","\n","\n">>
            \o Join([k \in 1..Len(crates) |-> Section(crates[k])], <<"\n">>)

\* message of the Error thrown by the catch block of searchCrates
SearchCratesFailure(args, cause) == <<"F","a","i","l","e","d"," ","t","o"," ","s","e","a","r","c","h"," ","c","r","a","t","e","s",":"," ">> \o cause

\* ------------------------------------------------------------------------
\* Tool-dispatch handler (CallToolRequestSchema)
\* ------------------------------------------------------------------------
\* ErrorCode.MethodNotFound and ErrorCode.InternalError of the protocol
MethodNotFound == -32601
InternalError == -32603

\* new McpError(ErrorCode.InternalError, `Error executing tool ${name}: ${error}`)
HandlerError(name, error) ==
    [kind |-> "error", code |-> InternalError,
     message |-> <<"E","r","r","o","r"," ","e","x","e","c","u","t","i","n","g"," ","t","o","o","l"," ">> \o name \o <<":"," ">> \o error]

\* `${error}` for the McpError thrown by the default branch of the switch
UnknownToolError(name) == <<"M","c","p","E","r","r","o","r",":"," ","M","C","P"," ","e","r","r","o","r"," ","-","3","2","6","0","1",":"," ","U","n","k","n","o","w","n"," ","t","o","o","l",":"," ">> \o name

\* { content: [{ type: "text", text }] }
TextPayload(text) == [kind |-> "ok", text |-> text]

\* ------------------------------------------------------------------------
\* Inputs
\* ------------------------------------------------------------------------
Crates == {<<"t","o","k","i","o">>, <<"s","e","r","d","e">>}
Versions == {<<"1",".","0",".","0">>}

\* a record set with and without the optional version
WithVersion(S) == S \cup {[k \in DOMAIN a \cup {"version"} |-> IF k = "version" THEN v ELSE a[k]] : a \in S, v \in Versions}

ReadMeArgs == WithVersion([crate_name : Crates])

PathAlphabet == {"a", ":"}
ItemPaths ==
    {<<"t","o","k","i","o",":",":","s","y","n","c",":",":","M","u","t","e","x">>, <<"M","u","t","e","x">>, <<"a",":",":","b">>}
        \cup UNION {[1..k -> PathAlphabet] : k \in 0..MaxPathLen}
ItemTypes == {<<"m","o","d","u","l","e">>, <<"s","t","r","u","c","t">>, <<"f","n">>}
ItemArgs == WithVersion([crate_name : Crates, item_type : ItemTypes, item_path : ItemPaths])

Queries == {<<>>, <<"m","u">>}
TypeFilters == {<<"s","t","r","u","c","t">>, <<"u","n","k","n","o","w","n">>, <<"m","u","t","e","x">>}
SearchArgs ==
    WithVersion([crate_name : Crates]
        \cup [crate_name : Crates, query : Queries]
        \cup [crate_name : Crates, item_type : TypeFilters]
        \cup [crate_name : Crates, query : Queries, item_type : TypeFilters])

CrateQueries == {<<"a","s","y","n","c">>}
PerPages == {5, 250}
Sorts == {<<"d","o","w","n","l","o","a","d","s">>}
SearchCratesArgs ==
    [query : CrateQueries]
        \cup [query : CrateQueries, per_page : PerPages]
        \cup [query : CrateQueries, sort : Sorts]
        \cup [query : CrateQueries, per_page : PerPages, sort : Sorts]

\* what the registry may answer in response.data.crates
RegistryAnswers ==
    {<<>>,
     <<[name |-> <<"t","o","k","i","o">>, description |-> <<"A","n"," ","a","s","y","n","c"," ","r","u","n","t","i","m","e">>, downloads |-> 1234567,
        newest_version |-> <<"1",".","0",".","0">>, documentation |-> <<"h","t","t","p","s",":","/","/","d","o","c","s",".","r","s","/","t","o","k","i","o">>]>>,
     <<[name |-> <<"t","o","k","i","o">>, description |-> <<"A","n"," ","a","s","y","n","c"," ","r","u","n","t","i","m","e">>, downloads |-> 1234567,
        newest_version |-> <<"1",".","0",".","0">>, documentation |-> <<"h","t","t","p","s",":","/","/","d","o","c","s",".","r","s","/","t","o","k","i","o">>],
       [name |-> <<"s","m","o","l">>, description |-> <<>>, downloads |-> 1005,
        newest_version |-> <<"0",".","1",".","0">>, documentation |-> <<>>]>>}

UnknownTools == {<<"d","o","c","s","_","r","s","_","g","e","t","_","i","t","e","m","s">>, <<>>}

\* what axios.get throws, as `${error}` prints it
FetchCauses == {<<"A","x","i","o","s","E","r","r","o","r",":"," ","R","e","q","u","e","s","t"," ","f","a","i","l","e","d"," ","w","i","t","h"," ","s","t","a","t","u","s"," ","c","o","d","e"," ","4","0","4">>, <<"E","r","r","o","r",":"," ","g","e","t","a","d","d","r","i","n","f","o"," ","E","N","O","T","F","O","U","N","D"," ","d","o","c","s",".","r","s">>}

NoElements == {<<>>}
ReadMePages ==
    [mainContent : NoElements, itemDecl : NoElements, links : NoElements,
     docblock : {<<>>, <<<<>>>>, <<<<"<","p",">","d","o","c","<","/","p",">">>>>, <<<<"<","p",">","d","o","c","<","/","p",">">>, <<"<","p",">","m","o","r","e","<","/","p",">">>>>},
     altItemDecl : {<<>>, <<<<"<","p",">","a","l","t","<","/","p",">">>>>}]

ItemPages ==
    [links : NoElements,
     mainContent : {<<>>, <<<<>>>>, <<<<"<","d","i","v",">","m","a","i","n","<","/","d","i","v",">">>>>},
     itemDecl : {<<>>, <<<<>>>>, <<<<"<","p",">","d","e","c","l","<","/","p",">">>>>},
     docblock : {<<>>, <<<<>>>>, <<<<"<","p",">","<","/","p",">">>>>, <<<<"<","p",">","d","o","c","<","/","p",">">>>>},
     altItemDecl : {<<>>, <<<<"<","p",">","a","l","t","<","/","p",">">>>>}]

\* hyperlinks an index page may hold inside #main-content
Anchors ==
    {[text |-> <<"M","u","t","e","x">>, href |-> <<"s","y","n","c","/","s","t","r","u","c","t",".","M","u","t","e","x",".","h","t","m","l">>],
     [text |-> <<" ","M","u","t","e","x","\n">>, href |-> <<"s","t","r","u","c","t",".","M","u","t","e","x",".","h","t","m","l">>],
     [text |-> <<"M","u","t","e","x">>, href |-> <<"s","y","n","c","/","t","r","a","i","t",".","M","u","t","e","x",".","h","t","m","l">>],
     [text |-> <<"R","e","q","u","e","s","t">>, href |-> <<"h","t","t","p","/","s","t","r","u","c","t",".","R","e","q","u","e","s","t",".","h","t","m","l">>],
     [text |-> <<"C","l","i","e","n","t">>, href |-> <<"h","t","t","p","s",":","/","/","d","o","c","s",".","r","s","/","h","y","p","e","r","/","1",".","0",".","0","/","h","y","p","e","r","/","s","t","r","u","c","t",".","C","l","i","e","n","t",".","h","t","m","l">>],
     [text |-> <<"c","o","n","s","t","r","u","c","t">>, href |-> <<"f","n",".","c","o","n","s","t","r","u","c","t",".","h","t","m","l">>],
     [text |-> <<"s","p","a","w","n">>, href |-> <<"t","a","s","k","/","f","n",".","s","p","a","w","n",".","h","t","m","l">>],
     [text |-> <<"u","n","k","n","o","w","n">>, href |-> <<"u","n","k","n","o","w","n","/","i","n","d","e","x",".","h","t","m","l">>],
     [text |-> <<" ">>, href |-> <<"e","n","u","m",".","B","l","a","n","k",".","h","t","m","l">>],
     [text |-> <<"O","r","p","h","a","n">>, href |-> <<>>]}

SearchPages ==
    [mainContent : NoElements, itemDecl : NoElements, docblock : NoElements,
     altItemDecl : NoElements,
     links : UNION {[1..k -> Anchors] : k \in 0..MaxLinks}]

\* ------------------------------------------------------------------------
\* State
\* ------------------------------------------------------------------------
VARIABLES
    pc,          \* "idle", "awaiting" (suspended in await axios.get) or "done"
    request,     \* request.params of the call being served
    url,         \* the URL of the GET issued by the call
    fetches,     \* GETs issued by the call
    response,    \* outcome of the GET
    contentHtml, \* the fragment extracted from the page
    uniqueItems, \* the items searchInCrate reports
    caught,      \* `${error}` of what the handler's catch block caught
    result       \* what the handler returns or throws

vars == <<pc, request, url, fetches, response, contentHtml, uniqueItems, caught, result>>

SearchCratesTool == <<"d","o","c","s","_","r","s","_","s","e","a","r","c","h","_","c","r","a","t","e","s">>
ReadMeTool == <<"d","o","c","s","_","r","s","_","r","e","a","d","m","e">>
GetItemTool == <<"d","o","c","s","_","r","s","_","g","e","t","_","i","t","e","m">>
SearchInCrateTool == <<"d","o","c","s","_","r","s","_","s","e","a","r","c","h","_","i","n","_","c","r","a","t","e">>

\* the cases of the switch on request.params.name
KnownTools == {SearchCratesTool, ReadMeTool, GetItemTool, SearchInCrateTool}

NoRequest == [name |-> <<>>, arguments |-> [crate_name |-> <<>>]]
NoResponse == [status |-> "none"]
NoResult == [kind |-> "none"]

Init ==
    /\ pc = "idle"
    /\ request = NoRequest
    /\ url = <<>>
    /\ fetches = 0
    /\ response = NoResponse
    /\ contentHtml = <<>>
    /\ uniqueItems = <<>>
    /\ caught = <<>>
    /\ result = NoResult

\* the handler dispatches to a tool, which builds its URL and awaits the GET
Dispatch(name, args, target) ==
    /\ pc = "idle"
    /\ pc' = "awaiting"
    /\ request' = [name |-> name, arguments |-> args]
    /\ url' = target
    /\ fetches' = fetches + 1
    /\ UNCHANGED <<response, contentHtml, uniqueItems, caught, result>>

CallSearchCrates == \E args \in SearchCratesArgs : Dispatch(SearchCratesTool, args, SearchCratesUrl(args))

CallReadMe == \E args \in ReadMeArgs : Dispatch(ReadMeTool, args, ReadMeUrl(args))

CallGetItem == \E args \in ItemArgs : Dispatch(GetItemTool, args, ItemUrl(args))

CallSearchInCrate == \E args \in SearchArgs : Dispatch(SearchInCrateTool, args, SearchUrl(args))

\* default branch of the switch: the McpError is thrown inside the try block
CallUnknownTool ==
    \E name \in UnknownTools :
        /\ pc = "idle"
        /\ pc' = "done"
        /\ request' = [name |-> name, arguments |-> NoRequest.arguments]
        /\ caught' = UnknownToolError(name)
        /\ result' = HandlerError(name, caught')
        /\ UNCHANGED <<url, fetches, response, contentHtml, uniqueItems>>

\* axios.get rejects: the tool's catch block rethrows, the handler wraps
FetchFails ==
    \E cause \in FetchCauses :
        /\ pc = "awaiting"
        /\ pc' = "done"
        /\ response' = [status |-> "failed", cause |-> cause]
        /\ caught' = ErrorToString(
                        IF request.name = SearchCratesTool THEN SearchCratesFailure(request.arguments, cause)
                        ELSE IF request.name = ReadMeTool THEN ReadMeFailure(request.arguments, cause)
                        ELSE IF request.name = GetItemTool THEN ItemFailure(request.arguments, cause)
                        ELSE SearchFailure(request.arguments, cause))
        /\ result' = HandlerError(request.name, caught')
        /\ UNCHANGED <<request, url, fetches, contentHtml, uniqueItems>>

SearchCratesResponds ==
    \E crates \in RegistryAnswers :
        /\ pc = "awaiting" /\ request.name = SearchCratesTool
        /\ pc' = "done"
        /\ response' = [status |-> "ok", data |-> [crates |-> crates]]
        /\ result' = TextPayload(SearchCratesText(request.arguments, crates))
        /\ UNCHANGED <<request, url, fetches, contentHtml, uniqueItems, caught>>

ReadMeResponds ==
    \E page \in ReadMePages :
        /\ pc = "awaiting" /\ request.name = ReadMeTool
        /\ pc' = "done"
        /\ response' = [status |-> "ok", data |-> page]
        /\ contentHtml' = HtmlOrEmpty(First(page.docblock))
        /\ result' = TextPayload(ReadMeText(request.arguments, url, page))
        /\ UNCHANGED <<request, url, fetches, uniqueItems, caught>>

GetItemResponds ==
    \E page \in ItemPages :
        /\ pc = "awaiting" /\ request.name = GetItemTool
        /\ pc' = "done"
        /\ response' = [status |-> "ok", data |-> page]
        /\ contentHtml' = ExtractItem(page)
        /\ result' = TextPayload(ItemText(request.arguments, url, contentHtml'))
        /\ UNCHANGED <<request, url, fetches, uniqueItems, caught>>

SearchInCrateResponds ==
    \E page \in SearchPages :
        /\ pc = "awaiting" /\ request.name = SearchInCrateTool
        /\ pc' = "done"
        /\ response' = [status |-> "ok", data |-> page]
        /\ uniqueItems' = UniqueItems(CollectItems(request.arguments, page.links))
        /\ result' = TextPayload(SearchText(request.arguments, uniqueItems'))
        /\ UNCHANGED <<request, url, fetches, contentHtml, caught>>

\* the response is sent; nothing of the call is kept
Return ==
    /\ pc = "done"
    /\ pc' = "idle"
    /\ request' = NoRequest
    /\ url' = <<>>
    /\ fetches' = 0
    /\ response' = NoResponse
    /\ contentHtml' = <<>>
    /\ uniqueItems' = <<>>
    /\ caught' = <<>>
    /\ result' = NoResult

Next ==
    \/ CallSearchCrates
    \/ CallReadMe
    \/ CallGetItem
    \/ CallSearchInCrate
    \/ CallUnknownTool
    \/ FetchFails
    \/ SearchCratesResponds
    \/ ReadMeResponds
    \/ GetItemResponds
    \/ SearchInCrateResponds
    \/ Return

Spec == Init /\ [][Next]_vars

\* ------------------------------------------------------------------------
\* Properties
\* ------------------------------------------------------------------------
ItemCall == request.name = GetItemTool /\ pc # "idle"
ReadMeCall == request.name = ReadMeTool /\ pc # "idle"
SearchCall == request.name = SearchInCrateTool /\ pc # "idle"
Answered == pc = "done" /\ response.status = "ok"

\* C1: for an item path of at least two "::"-separated segments, get-item
\* fetches .../{all segments joined by "/"}/index.html when the kind is
\* module (never a {kind}.{name}.html leaf), and otherwise
\* .../{all segments but the last joined by "/"}/{kind}.{last}.html; the
\* tokio::sync::Mutex struct of tokio 1.0.0 is fetched from
\* https://docs.rs/tokio/1.0.0/tokio/sync/struct.Mutex.html
C1_ItemUrlScheme ==
    ItemCall =>
        LET args == request.arguments
            segments == Split(args.item_path, <<":",":">>)
            root == <<"h","t","t","p","s",":","/","/","d","o","c","s",".","r","s","/">> \o args.crate_name \o <<"/">> \o VersionOf(args) \o <<"/">>
            leaf == args.item_type \o <<".">> \o segments[Len(segments)] \o <<".","h","t","m","l">>
        IN  /\ (Len(segments) >= 2 /\ args.item_type = <<"m","o","d","u","l","e">>) =>
                    /\ url = root \o Join(segments, <<"/">>) \o <<"/","i","n","d","e","x",".","h","t","m","l">>
                    /\ ~EndsWith(url, leaf)
            /\ (Len(segments) >= 2 /\ args.item_type # <<"m","o","d","u","l","e">>) =>
                    url = root \o Join(SubSeq(segments, 1, Len(segments) - 1), <<"/">>) \o <<"/">> \o leaf
            /\ (args = [crate_name |-> <<"t","o","k","i","o">>, version |-> <<"1",".","0",".","0">>, item_type |-> <<"s","t","r","u","c","t">>,
                        item_path |-> <<"t","o","k","i","o",":",":","s","y","n","c",":",":","M","u","t","e","x">>]) =>
                    url = <<"h","t","t","p","s",":","/","/","d","o","c","s",".","r","s","/","t","o","k","i","o","/","1",".","0",".","0","/","t","o","k","i","o","/","s","y","n","c","/","s","t","r","u","c","t",".","M","u","t","e","x",".","h","t","m","l">>

C1_Witness ==
    /\ ItemCall
    /\ request.arguments.item_path = <<"t","o","k","i","o",":",":","s","y","n","c",":",":","M","u","t","e","x">>
    /\ request.arguments.item_type = <<"s","t","r","u","c","t">>
    /\ url = <<"h","t","t","p","s",":","/","/","d","o","c","s",".","r","s","/","t","o","k","i","o","/","1",".","0",".","0","/","t","o","k","i","o","/","s","y","n","c","/","s","t","r","u","c","t",".","M","u","t","e","x",".","h","t","m","l">>

\* C2: for a non-module kind and an item path of exactly one segment, the
\* leaf file {kind}.{name}.html is fetched from directly under
\* https://docs.rs/{crate}/{version}/{crate}/ and the URL has no empty path
\* segment ("//") after the host
C2_SingleSegmentUnderCrateRoot ==
    (/\ ItemCall
     /\ request.arguments.item_type # <<"m","o","d","u","l","e">>
     /\ request.arguments.item_path # <<>>
     /\ ~Includes(request.arguments.item_path, <<":">>)
     /\ Len(Split(request.arguments.item_path, <<":",":">>)) = 1) =>
        LET args == request.arguments
        IN  /\ url = <<"h","t","t","p","s",":","/","/","d","o","c","s",".","r","s","/">> \o args.crate_name \o <<"/">> \o VersionOf(args) \o <<"/">>
                        \o args.crate_name \o <<"/">> \o args.item_type \o <<".">> \o args.item_path \o <<".","h","t","m","l">>
            /\ ~Includes(SubSeq(url, Len(<<"h","t","t","p","s",":","/","/">>) + 1, Len(url)), <<"/","/">>)

\* C3: get-readme answers "No documentation content found at {url}" whenever
\* the inner markup of the first description block is empty, and the heading
\* followed by the rendered body only when it is non-empty
C3_ReadMeEmptyFragment ==
    (ReadMeCall /\ Answered) =>
        LET heading == <<"#"," ">> \o request.arguments.crate_name \o <<" ","D","o","c","u","m","e","n","t","a","t","i","o","n","\n","\n">>
            fragment == IF Len(response.data.docblock) = 0 THEN <<>> ELSE response.data.docblock[1]
        IN  /\ result.kind = "ok"
            /\ fragment = <<>> =>
                    Includes(result.text, <<"N","o"," ","d","o","c","u","m","e","n","t","a","t","i","o","n"," ","c","o","n","t","e","n","t"," ","f","o","u","n","d"," ","a","t"," ">> \o url)
            /\ fragment # <<>> => result.text = heading \o Turndown(fragment)

\* C4: when the page yields an empty fragment, get-item returns a normal
\* payload containing "No documentation content found" and the attempted
\* URL; the heading + "Documentation URL" + body payload is returned if and
\* only if the fragment is non-empty
C4_ItemNotFoundPayload ==
    (ItemCall /\ Answered) =>
        LET args == request.arguments
            heading == <<"#"," ">> \o args.item_path \o <<" ","(">> \o args.item_type \o <<")","\n","\n">>
            documented == StartsWith(result.text, heading \o <<"*","*","D","o","c","u","m","e","n","t","a","t","i","o","n"," ","U","R","L",":","*","*"," ">> \o url \o <<"\n","\n">>)
        IN  /\ result.kind = "ok"
            /\ contentHtml = <<>> =>
                    /\ Includes(result.text, <<"N","o"," ","d","o","c","u","m","e","n","t","a","t","i","o","n"," ","c","o","n","t","e","n","t"," ","f","o","u","n","d">>)
                    /\ Includes(result.text, url)
            /\ documented <=> contentHtml # <<>>

C4_Witness ==
    /\ ItemCall /\ Answered
    /\ response.data.mainContent = <<>> /\ response.data.itemDecl = <<>>
    /\ response.data.docblock = <<>> /\ response.data.altItemDecl = <<>>
    /\ result.kind = "ok"
    /\ Includes(result.text, <<"N","o"," ","d","o","c","u","m","e","n","t","a","t","i","o","n"," ","c","o","n","t","e","n","t"," ","f","o","u","n","d"," ","a","t"," ">> \o url)

\* C5: when the fetch of a get-readme call fails, no further fetch is issued,
\* no success payload is returned, the call ends in an error whose message
\* contains the crate name and "Failed", and that message is contained in the
\* error the handler reports
C5_ReadMeFetchFailure ==
    ReadMeCall =>
        /\ fetches = 1
        /\ (pc = "done" /\ response.status = "failed") =>
                LET thrown == SubSeq(caught, Len(<<"E","r","r","o","r",":"," ">>) + 1, Len(caught))
                IN  /\ result.kind = "error"
                    /\ StartsWith(caught, <<"E","r","r","o","r",":"," ">>)
                    /\ Includes(thrown, request.arguments.crate_name)
                    /\ Includes(thrown, <<"F","a","i","l","e","d">>)
                    /\ Includes(thrown, response.cause)
                    /\ Includes(result.message, thrown)

C5_Witness ==
    /\ ReadMeCall /\ pc = "done" /\ response.status = "failed"
    /\ result.kind = "error"
    /\ Includes(result.message, <<"F","a","i","l","e","d"," ","t","o"," ","g","e","t"," ","R","E","A","D","M","E"," ","f","o","r"," ","t","o","k","i","o">>)

\* a hyperlink the each-callback does not skip and whose type is classified
Listed(anchor) ==
    /\ Trim(anchor.text) # <<>>
    /\ anchor.href # <<>>
    /\ Classify(anchor.href) # <<"u","n","k","n","o","w","n">>

\* a listed hyperlink that passes the name filter and the type filter
Matching(args, anchor) ==
    /\ Listed(anchor)
    /\ MatchesQuery(args, Trim(anchor.text))
    /\ MatchesType(args, Classify(anchor.href), Trim(anchor.text))

\* two hyperlinks with the same visible name and the same classified type
SameIdentity(a, b) == Trim(a.text) = Trim(b.text) /\ Classify(a.href) = Classify(b.href)

\* C6: every returned item's link is an absolute URL: a relative target is
\* resolved to https://docs.rs/{crate}/{version}/{crate}/{target}, only a
\* target that already is an absolute URL is passed through unchanged
C6_LinksAreAbsolute ==
    (SearchCall /\ Answered) =>
        LET args == request.arguments
            links == response.data.links
            Absolute(s) == StartsWith(s, <<"h","t","t","p",":","/","/">>) \/ StartsWith(s, <<"h","t","t","p","s",":","/","/">>)
            Resolved(href) ==
                IF Absolute(href) THEN href
                ELSE <<"h","t","t","p","s",":","/","/","d","o","c","s",".","r","s","/">> \o args.crate_name \o <<"/">> \o VersionOf(args) \o <<"/">>
                        \o args.crate_name \o <<"/">> \o href
        IN  \A i \in 1..Len(uniqueItems) :
                /\ Absolute(uniqueItems[i].link)
                /\ \E k \in 1..Len(links) :
                        /\ Trim(links[k].text) = uniqueItems[i].name
                        /\ uniqueItems[i].link = Resolved(links[k].href)

\* C7 (as stated): with an empty or absent query and no type filter, every
\* hyperlink with non-empty text, non-empty target and a known type is
\* returned with its own target, in first-seen order, also when two of them
\* share name and type and differ in target
C7_EveryListedLinkReturned ==
    (SearchCall /\ Answered /\ IsBlank(request.arguments, "query")
        /\ "item_type" \notin DOMAIN request.arguments) =>
        LET args == request.arguments
            links == response.data.links
            Shows(i, k) ==
                /\ uniqueItems[i].name = Trim(links[k].text)
                /\ uniqueItems[i].type = Classify(links[k].href)
                /\ uniqueItems[i].link = ResolveLink(args, links[k].href)
            FirstSeen(i) == CHOOSE k \in 1..Len(links) : Shows(i, k) /\ \A j \in 1..(k - 1) : ~Shows(i, j)
        IN  /\ \A k \in 1..Len(links) : Listed(links[k]) => \E i \in 1..Len(uniqueItems) : Shows(i, k)
            /\ \A i \in 1..Len(uniqueItems) : \E k \in 1..Len(links) : Listed(links[k]) /\ Shows(i, k)
            /\ \A i, j \in 1..Len(uniqueItems) : i < j => FirstSeen(i) < FirstSeen(j)

\* C7 (amended): with an empty or absent query and no type filter, every
\* hyperlink with non-empty text, non-empty target and a known type is
\* represented in the result by an item of its name and type, whose link is
\* the target of the first such hyperlink of that name and type; the items
\* are in first-seen order and nothing else is returned
C7_EveryListedIdentityReturned ==
    (SearchCall /\ Answered /\ IsBlank(request.arguments, "query")
        /\ "item_type" \notin DOMAIN request.arguments) =>
        LET args == request.arguments
            links == response.data.links
            IsFirstListed(k) ==
                /\ Listed(links[k])
                /\ \A j \in 1..(k - 1) : ~(Listed(links[j]) /\ SameIdentity(links[j], links[k]))
            firsts == {k \in 1..Len(links) : IsFirstListed(k)}
        IN  /\ Len(uniqueItems) = Cardinality(firsts)
            /\ \A k \in 1..Len(links) : Listed(links[k]) =>
                    \E i \in 1..Len(uniqueItems) : \E f \in firsts :
                        /\ SameIdentity(links[f], links[k])
                        /\ Cardinality({g \in firsts : g <= f}) = i
                        /\ uniqueItems[i].name = Trim(links[k].text)
                        /\ uniqueItems[i].type = Classify(links[k].href)
                        /\ uniqueItems[i].link = ResolveLink(args, links[f].href)

C7_Witness ==
    /\ SearchCall /\ Answered /\ IsBlank(request.arguments, "query")
    /\ "item_type" \notin DOMAIN request.arguments
    /\ Len(response.data.links) = 2
    /\ Listed(response.data.links[1]) /\ Listed(response.data.links[2])
    /\ SameIdentity(response.data.links[1], response.data.links[2])
    /\ response.data.links[1].href # response.data.links[2].href
    /\ Len(uniqueItems) = 1

\* C8: no two returned items have the same (name, type) pair; of several
\* matching hyperlinks with the same visible text and classified type the
\* first one is retained and its link reported; the retained items keep the
\* order in which they were encountered
C8_DeduplicatedFirstWins ==
    (SearchCall /\ Answered) =>
        LET args == request.arguments
            links == response.data.links
        IN  /\ \A i, j \in 1..Len(uniqueItems) :
                    i < j => ~(uniqueItems[i].name = uniqueItems[j].name
                                /\ uniqueItems[i].type = uniqueItems[j].type)
            /\ \A k \in 1..Len(links) : Matching(args, links[k]) =>
                    \E i \in 1..Len(uniqueItems) :
                        /\ uniqueItems[i].name = Trim(links[k].text)
                        /\ uniqueItems[i].type = Classify(links[k].href)
            /\ \E src \in [1..Len(uniqueItems) -> 1..Len(links)] :
                    /\ \A i \in 1..Len(uniqueItems) :
                            /\ Matching(args, links[src[i]])
                            /\ uniqueItems[i].name = Trim(links[src[i]].text)
                            /\ uniqueItems[i].type = Classify(links[src[i]].href)
                            /\ uniqueItems[i].link = ResolveLink(args, links[src[i]].href)
                            /\ \A j \in 1..(src[i] - 1) :
                                    ~(Matching(args, links[j]) /\ SameIdentity(links[j], links[src[i]]))
                    /\ \A i, j \in 1..Len(uniqueItems) : i < j => src[i] < src[j]

C8_Witness ==
    /\ SearchCall /\ Answered
    /\ "query" \in DOMAIN request.arguments /\ request.arguments.query = <<"m","u">>
    /\ Len(response.data.links) = 2
    /\ Matching(request.arguments, response.data.links[1])
    /\ Matching(request.arguments, response.data.links[2])
    /\ SameIdentity(response.data.links[1], response.data.links[2])
    /\ response.data.links[1].href # response.data.links[2].href
    /\ Len(uniqueItems) = 1
    /\ uniqueItems[1].link = ResolveLink(request.arguments, response.data.links[1].href)

\* C9: for every name query and type filter, no returned item has the type
\* "unknown"; an item's type is the first of struct., trait., fn., enum.,
\* type., const., static., macro. (in that order) that occurs in its target
C9_NeverUnknown ==
    (SearchCall /\ Answered) =>
        LET args == request.arguments
            links == response.data.links
            Table == <<[pattern |-> <<"s","t","r","u","c","t",".">>, kind |-> <<"s","t","r","u","c","t">>],
                       [pattern |-> <<"t","r","a","i","t",".">>, kind |-> <<"t","r","a","i","t">>],
                       [pattern |-> <<"f","n",".">>, kind |-> <<"f","u","n","c","t","i","o","n">>],
                       [pattern |-> <<"e","n","u","m",".">>, kind |-> <<"e","n","u","m">>],
                       [pattern |-> <<"t","y","p","e",".">>, kind |-> <<"t","y","p","e">>],
                       [pattern |-> <<"c","o","n","s","t",".">>, kind |-> <<"c","o","n","s","t","a","n","t">>],
                       [pattern |-> <<"s","t","a","t","i","c",".">>, kind |-> <<"s","t","a","t","i","c">>],
                       [pattern |-> <<"m","a","c","r","o",".">>, kind |-> <<"m","a","c","r","o">>]>>
            Hits(href) == {t \in 1..Len(Table) : Includes(href, Table[t].pattern)}
        IN  \A i \in 1..Len(uniqueItems) :
                /\ uniqueItems[i].type # <<"u","n","k","n","o","w","n">>
                /\ \E k \in 1..Len(links) :
                        /\ Trim(links[k].text) = uniqueItems[i].name
                        /\ ResolveLink(args, links[k].href) = uniqueItems[i].link
                        /\ Hits(links[k].href) # {}
                        /\ \A t \in Hits(links[k].href) :
                                (\A u \in Hits(links[k].href) : t <= u) => uniqueItems[i].type = Table[t].kind

C9_Witness ==
    /\ SearchCall /\ Answered
    /\ "item_type" \in DOMAIN request.arguments /\ request.arguments.item_type = <<"u","n","k","n","o","w","n">>
    /\ Len(response.data.links) = 2
    /\ response.data.links[1].href = <<"u","n","k","n","o","w","n","/","i","n","d","e","x",".","h","t","m","l">>
    /\ response.data.links[2].href = <<"f","n",".","c","o","n","s","t","r","u","c","t",".","h","t","m","l">>
    /\ uniqueItems = <<>>

\* C10: #main-content ends the chain only if it is present and non-empty, and
\* then the fragment is exactly its inner markup; if it is absent or empty,
\* the declaration block and the description block are still tried and
\* their content, when found, becomes the fragment
C10_EmptyMainContentFallsThrough ==
    (ItemCall /\ Answered) =>
        LET page == response.data
            Markup(sel) == IF Len(sel) = 0 THEN <<>> ELSE sel[1]
        IN  /\ Markup(page.mainContent) # <<>> => contentHtml = Markup(page.mainContent)
            /\ Markup(page.mainContent) = <<>> =>
                    /\ Includes(contentHtml, Markup(page.itemDecl))
                    /\ Includes(contentHtml, Markup(page.docblock))
                    /\ (Markup(page.itemDecl) # <<>> \/ Markup(page.docblock) # <<>>) => contentHtml # <<>>

\* C11: when #main-content is absent, the alternate selector
\* .rustdoc-main .item-decl contributes to the fragment only if neither the
\* declaration block nor the description block was found; with a
\* declaration block and no description block the fragment is exactly the
\* declaration block's inner markup
C11_AlternateOnlyWhenNothingFound ==
    (ItemCall /\ Answered /\ response.data.mainContent = <<>>) =>
        LET page == response.data
            Markup(sel) == IF Len(sel) = 0 THEN <<>> ELSE sel[1]
            declFound == Len(page.itemDecl) > 0
            docFound == Len(page.docblock) > 0
        IN  /\ (declFound \/ docFound) => contentHtml = Markup(page.itemDecl) \o Markup(page.docblock)
            /\ (declFound /\ ~docFound) => contentHtml = Markup(page.itemDecl)
            /\ (~declFound /\ ~docFound) => contentHtml = Markup(page.altItemDecl)

\* C12: a call whose name is none of the four tools performs no fetch and is
\* reported as an error with the MethodNotFound code and the message
\* "Unknown tool: {name}"; the InternalError code is carried only by errors
\* from executing one of the four tools
C12_UnknownToolIsMethodNotFound ==
    /\ (pc = "done" /\ request.name \notin KnownTools) =>
            /\ fetches = 0
            /\ result.kind = "error"
            /\ result.code = MethodNotFound
            /\ result.message = <<"U","n","k","n","o","w","n"," ","t","o","o","l",":"," ">> \o request.name
    /\ (pc = "done" /\ result.kind = "error" /\ result.code = InternalError) =>
            request.name \in KnownTools

====
